---- MODULE Spec2Model ----
(***************************************************************************)
(* fiber-signed: signed-URL middleware for Fiber.                          *)
(*                                                                         *)
(* The model follows src/config.go (Config, configDefault), src/signed.go  *)
(* (New, GetSignedURLFromHTTPRequest) and src/unnamed/part_000 (getHash,   *)
(* orderQueryParams, getSignature, validateRequest).                       *)
(*                                                                         *)
(* A Go string is a sequence of one-character strings, so that the code's  *)
(* splitting, sorting, escaping and concatenation are computed, not        *)
(* assumed.  Characters are the printable ASCII characters; their order is *)
(* the byte order that sort.Strings uses.                                  *)
(***************************************************************************)
EXTENDS Integers, Sequences, FiniteSets, TLC

VARIABLES cfg, handlers, now, resp, signed, probe

vars == <<cfg, handlers, now, resp, signed, probe>>

----------------------------------------------------------------------------
(* Characters and strings                                                  *)

\* Bytes 32..95 and 97..126 (the grave accent, byte 96, is left out).
AsciiLo ==
  <<" ", "!", "\"", "#", "$", "%", "&", "'", "(", ")", "*", "+", ",", "-",
    ".", "/", "0", "1", "2", "3", "4", "5", "6", "7", "8", "9", ":", ";",
    "<", "=", ">", "?", "@", "A", "B", "C", "D", "E", "F", "G", "H", "I",
    "J", "K", "L", "M", "N", "O", "P", "Q", "R", "S", "T", "U", "V", "W",
    "X", "Y", "Z", "[", "\\", "]", "^", "_">>

AsciiHi ==
  <<"a", "b", "c", "d", "e", "f", "g", "h", "i", "j", "k", "l", "m", "n",
    "o", "p", "q", "r", "s", "t", "u", "v", "w", "x", "y", "z", "{", "|",
    "}", "~">>

CharSet == {AsciiLo[i] : i \in 1..Len(AsciiLo)} \cup {AsciiHi[i] : i \in 1..Len(AsciiHi)}

\* The byte value of a character (space is 32).
OrdTable ==
  [c \in CharSet |->
    IF \E i \in 1..Len(AsciiLo) : AsciiLo[i] = c
    THEN 31 + (CHOOSE i \in 1..Len(AsciiLo) : AsciiLo[i] = c)
    ELSE 96 + (CHOOSE i \in 1..Len(AsciiHi) : AsciiHi[i] = c)]

Ord(c) == OrdTable[c]

Chr(n) == IF n < 96 THEN AsciiLo[n - 31] ELSE AsciiHi[n - 96]

Digits == {"0", "1", "2", "3", "4", "5", "6", "7", "8", "9"}

Lower == {AsciiHi[i] : i \in 1..26}

Upper == {AsciiLo[i] : i \in 34..59}

LowerHex == <<"0", "1", "2", "3", "4", "5", "6", "7", "8", "9", "a", "b", "c", "d", "e", "f">>

UpperHex == <<"0", "1", "2", "3", "4", "5", "6", "7", "8", "9", "A", "B", "C", "D", "E", "F">>

IsHex(c) == c \in Digits \cup {"a", "b", "c", "d", "e", "f", "A", "B", "C", "D", "E", "F"}

\* The value of a hexadecimal digit (net/url unhex).
UnHex(c) ==
  IF c \in Digits THEN Ord(c) - 48
  ELSE IF c \in Lower THEN Ord(c) - 97 + 10
  ELSE Ord(c) - 65 + 10

\* strings.Index for a one-byte separator: 0 when absent.
Index(s, c) ==
  LET at == {i \in 1..Len(s) : s[i] = c} IN
  IF at = {} THEN 0 ELSE CHOOSE i \in at : \A j \in at : i <= j

\* The concatenation of pieces[lo], ..., pieces[hi].
RECURSIVE FlatRange(_, _, _)
FlatRange(pieces, lo, hi) ==
  IF lo > hi THEN <<>>
  ELSE IF lo = hi THEN pieces[lo]
  ELSE LET mid == (lo + hi) \div 2 IN
       FlatRange(pieces, lo, mid) \o FlatRange(pieces, mid + 1, hi)

Flat(pieces) == FlatRange(pieces, 1, Len(pieces))

Contains(s, c) == Index(s, c) > 0

HasPrefix(s, p) == Len(s) >= Len(p) /\ SubSeq(s, 1, Len(p)) = p

\* strings.Cut for a one-byte separator: <<before, after, found>>.
Cut(s, c) ==
  LET i == Index(s, c) IN
  IF i = 0 THEN <<s, <<>>, FALSE>>
  ELSE <<SubSeq(s, 1, i - 1), SubSeq(s, i + 1, Len(s)), TRUE>>

\* strings.Split for a one-byte separator: every piece, empty ones included.
RECURSIVE Split(_, _)
Split(s, c) ==
  LET i == Index(s, c) IN
  IF i = 0 THEN <<s>>
  ELSE <<SubSeq(s, 1, i - 1)>> \o Split(SubSeq(s, i + 1, Len(s)), c)

\* strings.Join.
RECURSIVE Join(_, _)
Join(parts, sep) ==
  IF Len(parts) = 0 THEN <<>>
  ELSE IF Len(parts) = 1 THEN parts[1]
  ELSE parts[1] \o sep \o Join(Tail(parts), sep)

\* The order < of Go on strings: byte-wise lexicographic.
StrLess(a, b) ==
  LET n == IF Len(a) < Len(b) THEN Len(a) ELSE Len(b)
      diff == {i \in 1..n : a[i] # b[i]}
      d == CHOOSE i \in diff : \A j \in diff : i <= j
  IN IF diff = {} THEN Len(a) < Len(b) ELSE Ord(a[d]) < Ord(b[d])

RECURSIVE InsertSorted(_, _)
InsertSorted(x, sorted) ==
  IF Len(sorted) = 0 THEN <<x>>
  ELSE IF StrLess(x, sorted[1]) THEN <<x>> \o sorted
  ELSE <<sorted[1]>> \o InsertSorted(x, Tail(sorted))

\* sort.Strings: the same strings in ascending order.
RECURSIVE SortStrings(_)
SortStrings(ss) ==
  IF Len(ss) = 0 THEN <<>>
  ELSE InsertSorted(ss[1], SortStrings(Tail(ss)))

RECURSIVE SetToSeq(_)
SetToSeq(S) ==
  IF S = {} THEN <<>>
  ELSE LET x == CHOOSE y \in S : TRUE IN <<x>> \o SetToSeq(S \ {x})

IsSorted(ss) == \A i \in 1..(Len(ss) - 1) : ~StrLess(ss[i + 1], ss[i])

----------------------------------------------------------------------------
(* net/url and fasthttp, as far as the package calls them.  Inputs carry   *)
(* no control bytes, no ";" and no "#", and authorities carry no userinfo. *)

ToLower(s) == [i \in 1..Len(s) |-> IF s[i] \in Upper THEN Chr(Ord(s[i]) + 32) ELSE s[i]]

Unreserved(c) == c \in Digits \cup Lower \cup Upper \cup {"-", "_", ".", "~"}

\* A "%" that two hexadecimal digits follow.
IsEscape(s, i) == s[i] = "%" /\ i + 2 <= Len(s) /\ IsHex(s[i + 1]) /\ IsHex(s[i + 2])

\* A hexadecimal digit that belongs to the escape before it.
InEscape(s, i) == (i > 1 /\ IsEscape(s, i - 1)) \/ (i > 2 /\ IsEscape(s, i - 2))

EscapedByte(s, i) == Chr(16 * UnHex(s[i + 1]) + UnHex(s[i + 2]))

\* url.QueryUnescape: %XX is one byte, "+" is a space; a "%" that two
\* hexadecimal digits do not follow is an error.  <<ok, decoded>>.
QueryUnescape(s) ==
  IF \E i \in 1..Len(s) : s[i] = "%" /\ ~IsEscape(s, i) THEN <<FALSE, <<>>>>
  ELSE <<TRUE, Flat([i \in 1..Len(s) |->
                      IF InEscape(s, i) THEN <<>>
                      ELSE IF s[i] = "%" THEN <<EscapedByte(s, i)>>
                      ELSE IF s[i] = "+" THEN <<" ">>
                      ELSE <<s[i]>>])>>

\* url.PathUnescape: as QueryUnescape, but "+" stays.
PathUnescape(s) ==
  IF \E i \in 1..Len(s) : s[i] = "%" /\ ~IsEscape(s, i) THEN <<FALSE, <<>>>>
  ELSE <<TRUE, Flat([i \in 1..Len(s) |->
                      IF InEscape(s, i) THEN <<>>
                      ELSE IF s[i] = "%" THEN <<EscapedByte(s, i)>>
                      ELSE <<s[i]>>])>>

PercentByte(c) == <<"%", UpperHex[(Ord(c) \div 16) + 1], UpperHex[(Ord(c) % 16) + 1]>>

\* url.QueryEscape: every byte but the unreserved ones is escaped, a space
\* becomes "+".
QueryEscape(s) ==
  Flat([i \in 1..Len(s) |->
         IF Unreserved(s[i]) THEN <<s[i]>>
         ELSE IF s[i] = " " THEN <<"+">>
         ELSE PercentByte(s[i])])

\* escape(path, encodePath): of the reserved bytes only "?" is escaped.
PathEscape(s) ==
  Flat([i \in 1..Len(s) |->
         IF Unreserved(s[i]) \/ s[i] \in {"$", "&", "+", ",", "/", ":", ";", "=", "@"}
         THEN <<s[i]>>
         ELSE PercentByte(s[i])])

\* url.Values: a map from key to the list of its values, in order of
\* appearance.
EmptyValues == [k \in {} |-> <<>>]

ValuesGet(q, k) == IF k \in DOMAIN q /\ Len(q[k]) > 0 THEN q[k][1] ELSE <<>>

ValuesSet(q, k, v) == [x \in (DOMAIN q) \cup {k} |-> IF x = k THEN <<v>> ELSE q[x]]

ValuesAdd(q, k, v) ==
  [x \in (DOMAIN q) \cup {k} |->
    IF x = k THEN (IF k \in DOMAIN q THEN q[k] ELSE <<>>) \o <<v>> ELSE q[x]]

\* url.ParseQuery over the pieces between "&": an empty piece is skipped, a
\* piece is cut at its first "=", and a piece whose key or value does not
\* unescape is dropped (the error is the caller's to read).
RECURSIVE ParsePieces(_, _)
ParsePieces(pieces, m) ==
  IF Len(pieces) = 0 THEN m
  ELSE LET piece == pieces[1]
           kv == Cut(piece, "=")
           key == QueryUnescape(kv[1])
           value == QueryUnescape(kv[2])
       IN IF Len(piece) = 0 \/ ~key[1] \/ ~value[1]
          THEN ParsePieces(Tail(pieces), m)
          ELSE ParsePieces(Tail(pieces), ValuesAdd(m, key[2], value[2]))

ParseQuery(query) == ParsePieces(Split(query, "&"), EmptyValues)

RECURSIVE EncodeKey(_, _)
EncodeKey(k, vals) ==
  IF Len(vals) = 0 THEN <<>>
  ELSE <<QueryEscape(k) \o <<"=">> \o QueryEscape(vals[1])>> \o EncodeKey(k, Tail(vals))

RECURSIVE EncodeKeys(_, _)
EncodeKeys(keys, q) ==
  IF Len(keys) = 0 THEN <<>>
  ELSE EncodeKey(keys[1], q[keys[1]]) \o EncodeKeys(Tail(keys), q)

\* Values.Encode: "key=value" pairs sorted by key, both escaped.
ValuesEncode(q) == Join(EncodeKeys(SortStrings(SetToSeq(DOMAIN q)), q), <<"&">>)

\* getScheme of net/url: <<ok, scheme, rest>>.
RECURSIVE GetSchemeFrom(_, _)
GetSchemeFrom(raw, i) ==
  IF i > Len(raw) THEN <<TRUE, <<>>, raw>>
  ELSE IF raw[i] \in Lower \cup Upper THEN GetSchemeFrom(raw, i + 1)
  ELSE IF raw[i] \in Digits \cup {"+", "-", "."} THEN
    IF i = 1 THEN <<TRUE, <<>>, raw>> ELSE GetSchemeFrom(raw, i + 1)
  ELSE IF raw[i] = ":" THEN
    IF i = 1 THEN <<FALSE, <<>>, <<>>>>
    ELSE <<TRUE, SubSeq(raw, 1, i - 1), SubSeq(raw, i + 1, Len(raw))>>
  ELSE <<TRUE, <<>>, raw>>

\* parseHost: an optional ":port" of digits, and no byte a host may not hold.
ValidHost(host) ==
  LET colons == {j \in 1..Len(host) : host[j] = ":"}
      i == IF colons = {} THEN 0 ELSE CHOOSE j \in colons : \A k \in colons : k <= j
  IN
  /\ i > 0 => \A j \in (i + 1)..Len(host) : host[j] \in Digits
  /\ \A j \in 1..Len(host) :
       \/ Unreserved(host[j])
       \/ host[j] \in {"!", "$", "&", "'", "(", ")", "*", "+", ",", ";", "=", ":",
                       "[", "]", "<", ">", "\""}

\* url.ParseRequestURI: [ok, Scheme, Host, Path].  The query is cut off at
\* the first "?"; a URL without a scheme must start with "/"; a URL with a
\* scheme and no leading "/" is opaque (no host, no path).
BadURL == [ok |-> FALSE, Scheme |-> <<>>, Host |-> <<>>, Path |-> <<>>]

ParseRequestURI(raw) ==
  IF Len(raw) = 0 THEN BadURL
  ELSE IF raw = <<"*">> THEN [ok |-> TRUE, Scheme |-> <<>>, Host |-> <<>>, Path |-> raw]
  ELSE
    LET gs == GetSchemeFrom(raw, 1)
        scheme == ToLower(gs[2])
        rest == Cut(gs[3], "?")[1]
    IN IF ~gs[1] THEN BadURL
       ELSE IF ~HasPrefix(rest, <<"/">>) THEN
         IF Len(scheme) > 0
         THEN [ok |-> TRUE, Scheme |-> scheme, Host |-> <<>>, Path |-> <<>>]
         ELSE BadURL
       ELSE
         LET withAuth == Len(scheme) > 0 /\ HasPrefix(rest, <<"/", "/">>)
             after == SubSeq(rest, 3, Len(rest))
             slash == Index(after, "/")
             authority == IF ~withAuth THEN <<>>
                          ELSE IF slash = 0 THEN after
                          ELSE SubSeq(after, 1, slash - 1)
             rawPath == IF ~withAuth THEN rest
                        ELSE IF slash = 0 THEN <<>>
                        ELSE SubSeq(after, slash, Len(after))
             path == PathUnescape(rawPath)
         IN IF ~ValidHost(authority) \/ ~path[1] THEN BadURL
            ELSE [ok |-> TRUE, Scheme |-> scheme, Host |-> authority, Path |-> path[2]]

\* URL.String for a URL without userinfo, opaque part or fragment, whose
\* RawPath is empty.
URLString(u) ==
  LET path == PathEscape(u.Path) IN
  (IF Len(u.Scheme) > 0 THEN u.Scheme \o <<":">> ELSE <<>>)
  \o (IF (Len(u.Scheme) > 0 \/ Len(u.Host) > 0) /\ (Len(u.Host) > 0 \/ Len(u.Path) > 0)
      THEN <<"/", "/">> ELSE <<>>)
  \o u.Host
  \o (IF Len(path) > 0 /\ path[1] # "/" /\ Len(u.Host) > 0 THEN <<"/">> ELSE <<>>)
  \o path
  \o (IF Len(u.RawQuery) > 0 THEN <<"?">> \o u.RawQuery ELSE <<>>)

\* The argument decoding of fasthttp: as QueryUnescape, but a "%" that two
\* hexadecimal digits do not follow is kept as it is.
DecodeArg(s) ==
  Flat([i \in 1..Len(s) |->
         IF InEscape(s, i) THEN <<>>
         ELSE IF IsEscape(s, i) THEN <<EscapedByte(s, i)>>
         ELSE IF s[i] = "+" THEN <<" ">>
         ELSE <<s[i]>>])

RECURSIVE PeekPieces(_, _)
PeekPieces(pieces, key) ==
  IF Len(pieces) = 0 THEN <<>>
  ELSE LET kv == Cut(pieces[1], "=") IN
       IF Len(pieces[1]) > 0 /\ DecodeArg(kv[1]) = key THEN DecodeArg(kv[2])
       ELSE PeekPieces(Tail(pieces), key)

\* c.Query(key) of fiber: the first value of key in the query string of the
\* request (what follows its first "?"), "" when there is none.
CtxQuery(c, key) == PeekPieces(Split(Cut(c.originalURL, "?")[2], "&"), key)

----------------------------------------------------------------------------
(* strconv.ParseInt and the time package.  An int64 is a sign and a        *)
(* magnitude written in decimal digits, so that 64-bit values are exact.   *)

StripZeros(d) ==
  LET nz == {i \in 1..Len(d) : d[i] # 0} IN
  IF nz = {} THEN <<>>
  ELSE SubSeq(d, CHOOSE i \in nz : \A j \in nz : i <= j, Len(d))

RECURSIVE MagLessSame(_, _)
MagLessSame(a, b) ==
  IF Len(a) = 0 THEN FALSE
  ELSE IF a[1] # b[1] THEN a[1] < b[1]
  ELSE MagLessSame(Tail(a), Tail(b))

\* a < b for magnitudes without leading zeros.
MagLess(a, b) == Len(a) < Len(b) \/ (Len(a) = Len(b) /\ MagLessSame(a, b))

Front(d) == SubSeq(d, 1, Len(d) - 1)

LastOr0(d) == IF Len(d) = 0 THEN 0 ELSE d[Len(d)]

RECURSIVE AddCarry(_, _, _)
AddCarry(a, b, c) ==
  IF Len(a) = 0 /\ Len(b) = 0 THEN (IF c = 0 THEN <<>> ELSE <<c>>)
  ELSE LET t == LastOr0(a) + LastOr0(b) + c IN
       AddCarry(IF Len(a) = 0 THEN a ELSE Front(a),
                IF Len(b) = 0 THEN b ELSE Front(b), t \div 10) \o <<t % 10>>

MagAdd(a, b) == StripZeros(AddCarry(a, b, 0))

RECURSIVE SubBorrow(_, _, _)
SubBorrow(a, b, c) ==
  IF Len(a) = 0 THEN <<>>
  ELSE LET t == LastOr0(a) - LastOr0(b) - c IN
       SubBorrow(Front(a), IF Len(b) = 0 THEN b ELSE Front(b), IF t < 0 THEN 1 ELSE 0)
         \o <<IF t < 0 THEN t + 10 ELSE t>>

\* a - b for magnitudes with b <= a.
MagSub(a, b) == StripZeros(SubBorrow(a, b, 0))

Int64(neg, mag) == [neg |-> neg /\ Len(mag) > 0, mag |-> mag]

\* x + y for signed values.
SignedAdd(x, y) ==
  IF x.neg = y.neg THEN Int64(x.neg, MagAdd(x.mag, y.mag))
  ELSE IF MagLess(x.mag, y.mag) THEN Int64(y.neg, MagSub(y.mag, x.mag))
  ELSE Int64(x.neg, MagSub(x.mag, y.mag))

SignedLess(x, y) ==
  IF x.neg # y.neg THEN x.neg
  ELSE IF x.neg THEN MagLess(y.mag, x.mag)
  ELSE MagLess(x.mag, y.mag)

\* 1<<63 - 1, 1<<63 and 1<<64.
MaxInt64Mag == <<9, 2, 2, 3, 3, 7, 2, 0, 3, 6, 8, 5, 4, 7, 7, 5, 8, 0, 7>>

MinInt64Mag == <<9, 2, 2, 3, 3, 7, 2, 0, 3, 6, 8, 5, 4, 7, 7, 5, 8, 0, 8>>

TwoTo64Mag == <<1, 8, 4, 4, 6, 7, 4, 4, 0, 7, 3, 7, 0, 9, 5, 5, 1, 6, 1, 6>>

\* int64 arithmetic wraps around.
WrapInt64(x) ==
  IF ~x.neg /\ MagLess(MaxInt64Mag, x.mag)
  THEN Int64(TRUE, MagSub(TwoTo64Mag, x.mag))
  ELSE IF x.neg /\ MagLess(MinInt64Mag, x.mag)
  THEN Int64(FALSE, MagSub(TwoTo64Mag, x.mag))
  ELSE x

RECURSIVE NatToMag(_)
NatToMag(n) == IF n = 0 THEN <<>> ELSE NatToMag(n \div 10) \o <<n % 10>>

\* strconv.ParseInt(s, 10, 64): an optional sign, then decimal digits only,
\* and a value that fits an int64.  [ok, val].
ParseInt(s) ==
  LET signedText == Len(s) > 0 /\ s[1] \in {"+", "-"}
      digits == IF signedText THEN Tail(s) ELSE s
      neg == signedText /\ s[1] = "-"
      mag == StripZeros([i \in 1..Len(digits) |-> Ord(digits[i]) - 48])
  IN IF Len(digits) = 0 \/ \E i \in 1..Len(digits) : digits[i] \notin Digits
     THEN [ok |-> FALSE, val |-> Int64(FALSE, <<>>)]
     ELSE IF MagLess(IF neg THEN MinInt64Mag ELSE MaxInt64Mag, mag)
     THEN [ok |-> FALSE, val |-> Int64(FALSE, <<>>)]
     ELSE [ok |-> TRUE, val |-> Int64(neg, mag)]

\* The seconds from year 1 to 1970 that a time.Time counts from.
unixToInternal == Int64(FALSE, <<6, 2, 1, 3, 5, 5, 9, 6, 8, 0, 0>>)

\* time.Unix(sec, 0): seconds are kept as an int64 counted from year 1.
TimeUnix(sec) == [sec |-> WrapInt64(SignedAdd(sec, unixToInternal)), nsec |-> 0]

\* time.Now() for the clock of the model (seconds and nanoseconds since 1970).
TimeNow(t) == [sec |-> SignedAdd(Int64(FALSE, NatToMag(t.sec)), unixToInternal), nsec |-> t.nsec]

\* Time.Before.
Before(t, u) == SignedLess(t.sec, u.sec) \/ (t.sec = u.sec /\ t.nsec < u.nsec)

----------------------------------------------------------------------------
(* src/config.go                                                           *)

AlgorithmSHA1 == "SHA-1"

AlgorithmSHA256 == "SHA-256"

AlgorithmMD5 == "MD-5"

\* The value of the environment variable FIBER_SIGNED_PRIVATE_KEY.
FIBER_SIGNED_PRIVATE_KEY == <<"k">>

\* A func() string: nil, the default (it reads the environment at each
\* call), or a function that returns a fixed string.
NilFunc == [kind |-> "nil", value |-> <<>>]

GetenvFunc == [kind |-> "getenv", value |-> <<>>]

ConstFunc(v) == [kind |-> "const", value |-> v]

CallGetPrivateKeyFunc(f) == IF f.kind = "getenv" THEN FIBER_SIGNED_PRIVATE_KEY ELSE f.value

\* The path of a request of fiber: its URL up to the first "?".
CtxPath(c) == Cut(c.originalURL, "?")[1]

\* A func(c *fiber.Ctx) bool: "nil", or one of the predicates the model
\* configures: always true, or true for the path /foo.
CallNext(f, c) ==
  IF f = "always" THEN TRUE
  ELSE IF f = "foo" THEN CtxPath(c) = <<"/", "f", "o", "o">>
  ELSE FALSE

\* The zero Config: what the package variable cfg holds before New.
ZeroConfig ==
  [Next |-> "nil", Algorithm |-> "", GetPrivateKeyFunc |-> NilFunc,
   SignatureQueryKey |-> <<>>, PrivateKeyQueryKey |-> <<>>,
   ExpiresQueryKey |-> <<>>, BodyHashQueryKey |-> <<>>]

ConfigDefault ==
  [Next |-> "nil", Algorithm |-> AlgorithmSHA1, GetPrivateKeyFunc |-> GetenvFunc,
   SignatureQueryKey |-> <<"s", "i", "g", "n", "a", "t", "u", "r", "e">>, PrivateKeyQueryKey |-> <<"p", "r", "i", "v", "a", "t", "e", "K", "e", "y">>,
   ExpiresQueryKey |-> <<"e", "x", "p", "i", "r", "e", "s">>, BodyHashQueryKey |-> <<"b", "o", "d", "y", "H", "a", "s", "h">>]

\* configDefault(config...): config is the sequence of the arguments.
configDefault(config) ==
  IF Len(config) < 1 THEN ConfigDefault
  ELSE LET c == config[1] IN
    [Next |-> IF c.Next = "nil" THEN ConfigDefault.Next ELSE c.Next,
     Algorithm |-> IF c.Algorithm = "" THEN ConfigDefault.Algorithm ELSE c.Algorithm,
     GetPrivateKeyFunc |-> IF c.GetPrivateKeyFunc.kind = "nil"
                           THEN ConfigDefault.GetPrivateKeyFunc ELSE c.GetPrivateKeyFunc,
     SignatureQueryKey |-> IF c.SignatureQueryKey = <<>>
                           THEN ConfigDefault.SignatureQueryKey ELSE c.SignatureQueryKey,
     PrivateKeyQueryKey |-> IF c.PrivateKeyQueryKey = <<>>
                            THEN ConfigDefault.PrivateKeyQueryKey ELSE c.PrivateKeyQueryKey,
     ExpiresQueryKey |-> IF c.ExpiresQueryKey = <<>>
                         THEN ConfigDefault.ExpiresQueryKey ELSE c.ExpiresQueryKey,
     BodyHashQueryKey |-> IF c.BodyHashQueryKey = <<>>
                          THEN ConfigDefault.BodyHashQueryKey ELSE c.BodyHashQueryKey]

----------------------------------------------------------------------------
(* src/unnamed/part_000: getHash, orderQueryParams, getSignature,          *)
(* validateRequest.  The functions read the package variable cfg; here its *)
(* value at the call is the first parameter g.                             *)

\* fmt.Sprintf("%x", bytes): two lowercase hexadecimal digits a byte.
HexOf(s) ==
  [i \in 1..(2 * Len(s)) |->
    LET n == Ord(s[(i + 1) \div 2]) IN
    LowerHex[(IF i % 2 = 1 THEN n \div 16 ELSE n % 16) + 1]]

\* The digests, in lowercase hexadecimal.  Each is injective and the three
\* never agree: a tag for the algorithm, then the input in hexadecimal.
Sha1Hex(s) == <<"1">> \o HexOf(s)

Sha256Hex(s) == <<"2">> \o HexOf(s)

Md5Hex(s) == <<"5">> \o HexOf(s)

\* getHash, were its default case MD5.
getHashFallbackMD5(g, hashString) ==
  CASE g.Algorithm = AlgorithmSHA1 -> Sha1Hex(hashString)
    [] g.Algorithm = AlgorithmSHA256 -> Sha256Hex(hashString)
    [] OTHER -> Md5Hex(hashString)

getHash(g, hashString) ==
  CASE g.Algorithm = AlgorithmSHA1 -> Sha1Hex(hashString)
    [] g.Algorithm = AlgorithmSHA256 -> Sha256Hex(hashString)
    [] g.Algorithm = AlgorithmMD5 -> Md5Hex(hashString)
    [] OTHER -> Sha1Hex(hashString)

\* The keys of q but the signature key, sorted.
orderedKeys(g, q) == SortStrings(SetToSeq({k \in DOMAIN q : k # g.SignatureQueryKey}))

RECURSIVE orderedPairs(_, _)
orderedPairs(keys, q) ==
  IF Len(keys) = 0 THEN <<>>
  ELSE LET vals == SortStrings(q[keys[1]]) IN
       [i \in 1..Len(vals) |-> keys[1] \o <<"=">> \o vals[i]] \o orderedPairs(Tail(keys), q)

orderQueryParams(g, q) == Join(orderedPairs(orderedKeys(g, q), q), <<"&">>)

NoError == [key |-> <<>>, text |-> ""]

ErrCannotParse == [key |-> <<>>, text |-> "cannot parse provided URL"]

\* The query parameters getSignature reads from originalURL.
existingQuery(originalURL) ==
  IF Contains(originalURL, "?")
  THEN ParseQuery(Split(originalURL, "?")[2])
  ELSE ParseQuery(originalURL)

\* The string that getSignature hashes, for a URL that parses.
hashString(g, method, parsed, originalURL, body) ==
  LET path == IF Len(parsed.Path) < 1 THEN parsed.Path \o <<"/">> ELSE parsed.Path
      q0 == existingQuery(originalURL)
      q1 == ValuesSet(q0, g.PrivateKeyQueryKey, CallGetPrivateKeyFunc(g.GetPrivateKeyFunc))
      q2 == IF Len(body) > 0 THEN ValuesSet(q1, g.BodyHashQueryKey, getHash(g, body)) ELSE q1
  IN method \o <<"&">> \o parsed.Scheme \o <<":", "/", "/">> \o parsed.Host \o path
       \o <<"?">> \o orderQueryParams(g, q2)

\* getSignature: [sig, err].
signatureOf(g, method, parsed, originalURL, body) ==
  IF ~parsed.ok THEN [sig |-> <<>>, err |-> ErrCannotParse]
  ELSE [sig |-> getHash(g, hashString(g, method, parsed, originalURL, body)), err |-> NoError]

\* The calls of cfg.GetPrivateKeyFunc that a call of getSignature makes: one,
\* unless the URL does not parse.
secretCalls(baseURL, originalURL) ==
  IF ParseRequestURI(baseURL \o originalURL).ok THEN 1 ELSE 0

getSignature(g, method, baseURL, originalURL, body) ==
  signatureOf(g, method, ParseRequestURI(baseURL \o originalURL), originalURL, body)

ErrRequired(key) == [key |-> key, text |-> " is a required query param for a signed URL route"]

ErrNotInteger(key) == [key |-> key, text |-> " value must be valid integer"]

ErrExpired == [key |-> <<>>, text |-> "url signature has expired"]

ErrInvalidSignature == [key |-> <<>>, text |-> "invalid signature"]

\* c.BaseURL() of fiber.
CtxBaseURL(c) == c.protocol \o <<":", "/", "/">> \o c.hostname

\* The checks of validateRequest, were the signatures compared before the
\* expiry is looked at.
validateChecksCompareFirst(g, t, signature, expires, i, hashedSignature, calls) ==
  IF signature = <<>>
  THEN [ok |-> FALSE, err |-> ErrRequired(g.SignatureQueryKey), secret |-> 0]
  ELSE IF hashedSignature # signature
  THEN [ok |-> FALSE, err |-> ErrInvalidSignature, secret |-> calls]
  ELSE IF expires # <<>> /\ ~i.ok
  THEN [ok |-> FALSE, err |-> ErrNotInteger(g.ExpiresQueryKey), secret |-> calls]
  ELSE IF expires # <<>> /\ Before(TimeUnix(i.val), TimeNow(t))
  THEN [ok |-> FALSE, err |-> ErrExpired, secret |-> calls]
  ELSE [ok |-> TRUE, err |-> NoError, secret |-> calls]

\* The checks of validateRequest on the values it has read: the signature
\* and expires parameters, expires parsed as i, and the signature computed
\* for the request.
\* secret is the number of calls of cfg.GetPrivateKeyFunc made on the way:
\* calls, the calls getSignature makes, once getSignature has been reached.
validateChecks(g, t, signature, expires, i, hashedSignature, calls) ==
  IF signature = <<>>
  THEN [ok |-> FALSE, err |-> ErrRequired(g.SignatureQueryKey), secret |-> 0]
  ELSE IF expires # <<>> /\ ~i.ok
  THEN [ok |-> FALSE, err |-> ErrNotInteger(g.ExpiresQueryKey), secret |-> 0]
  ELSE IF expires # <<>> /\ Before(TimeUnix(i.val), TimeNow(t))
  THEN [ok |-> FALSE, err |-> ErrExpired, secret |-> 0]
  ELSE IF hashedSignature # signature
  THEN [ok |-> FALSE, err |-> ErrInvalidSignature, secret |-> calls]
  ELSE [ok |-> TRUE, err |-> NoError, secret |-> calls]

\* validateRequest at time t: [ok, err, secret].
validateRequest(g, t, c) ==
  validateChecks(g, t, CtxQuery(c, g.SignatureQueryKey), CtxQuery(c, g.ExpiresQueryKey),
                 ParseInt(CtxQuery(c, g.ExpiresQueryKey)),
                 getSignature(g, c.method, CtxBaseURL(c), c.originalURL, c.body).sig,
                 secretCalls(CtxBaseURL(c), c.originalURL))

----------------------------------------------------------------------------
(* src/signed.go                                                           *)

StatusOK == 200

StatusForbidden == 403

\* What the handler does with the result v of validateRequest.
respond(v) ==
  IF ~v.ok
  THEN [bypassed |-> FALSE, downstream |-> FALSE, status |-> StatusForbidden, err |-> v.err,
        secret |-> v.secret]
  ELSE [bypassed |-> FALSE, downstream |-> TRUE, status |-> StatusOK, err |-> NoError,
        secret |-> v.secret]

\* The handler that New returns, run on request c at time t while the
\* package variable cfg holds g: [bypassed, downstream, status, err, secret].

handler(g, t, c) ==
  IF g.Next # "nil" /\ CallNext(g.Next, c)
  THEN [bypassed |-> TRUE, downstream |-> TRUE, status |-> StatusOK, err |-> NoError,
        secret |-> 0]
  ELSE respond(validateRequest(g, t, c))

ErrReserved(key) ==
  [key |-> key, text |-> " is a reserved query parameter when generating signed routes"]

ErrBodyRead == [key |-> <<>>, text |-> "test error"]

\* An io.Reader body: "nil" (no body), "reader" (data is what is left to
\* read) or "errReader" (every read fails).
NoBody == [kind |-> "nil", data |-> <<>>]

ReaderBody(data) == [kind |-> "reader", data |-> data]

ErrReaderBody == [kind |-> "errReader", data |-> <<>>]

\* The steps of GetSignedURLFromHTTPRequest on request r, read being r with
\* its body consumed, q its parsed query and signature what getSignature
\* returned.
signedURL(g, r, read, q, signature) ==
  LET rawQuery == ValuesEncode(ValuesAdd(q, <<"s", "i", "g", "n", "a", "t", "u", "r", "e">>, signature))
  IN IF r.Body.kind = "errReader" THEN [url |-> <<>>, err |-> ErrBodyRead, r |-> r]
     ELSE IF ValuesGet(q, g.SignatureQueryKey) # <<>>
     THEN [url |-> <<>>, err |-> ErrReserved(g.SignatureQueryKey), r |-> read]
     ELSE IF ValuesGet(q, g.PrivateKeyQueryKey) # <<>>
     THEN [url |-> <<>>, err |-> ErrReserved(g.PrivateKeyQueryKey), r |-> read]
     ELSE IF ValuesGet(q, g.BodyHashQueryKey) # <<>>
     THEN [url |-> <<>>, err |-> ErrReserved(g.BodyHashQueryKey), r |-> read]
     ELSE [url |-> URLString([read.URL EXCEPT !.RawQuery = rawQuery]), err |-> NoError,
           r |-> [read EXCEPT !.URL.RawQuery = rawQuery]]

\* GetSignedURLFromHTTPRequest: [url, err, r], r being the request as the
\* call leaves it.
GetSignedURLFromHTTPRequest(g, r) ==
  signedURL(g, r, [r EXCEPT !.Body.data = <<>>], ParseQuery(r.URL.RawQuery),
            getSignature(g, r.Method, r.URL.Scheme \o <<":", "/", "/">> \o r.Host,
                         r.URL.Path \o <<"?">> \o r.URL.RawQuery, r.Body.data).sig)

----------------------------------------------------------------------------
(* The inputs of the model                                                 *)

\* New is called at most MaxHandlers times.
MaxHandlers == 2

\* The clock stops after MaxTicks half seconds.
MaxTicks == 2

\* A reading of the clock between two whole seconds.
HalfSecond == 500000000

SecretS == <<"s">>

\* The arguments of New: none, or one Config with some fields set.
ConfigNone == <<>>

ConfigBypass ==
  <<[ZeroConfig EXCEPT !.Next = "always", !.Algorithm = "Otherwise",
                       !.GetPrivateKeyFunc = ConstFunc(SecretS)]>>

ConfigSign ==
  <<[ZeroConfig EXCEPT !.Algorithm = AlgorithmSHA256, !.SignatureQueryKey = <<"s", "i", "g", "n">>]>>

ConfigKeys ==
  <<[ZeroConfig EXCEPT !.Next = "foo", !.Algorithm = AlgorithmMD5,
                       !.GetPrivateKeyFunc = ConstFunc(SecretS),
                       !.PrivateKeyQueryKey = <<"p", "k">>, !.ExpiresQueryKey = <<"e", "x", "p">>,
                       !.BodyHashQueryKey = <<"b", "h">>]>>

ConfigInputs == {ConfigNone, ConfigBypass, ConfigSign, ConfigKeys}

HostH == <<"h", ".", "i", "o">>

Request(method, scheme, path, rawQuery, body) ==
  [Method |-> method, Host |-> HostH,
   URL |-> [Scheme |-> scheme, Host |-> IF scheme = <<>> THEN <<>> ELSE HostH,
            Path |-> path, RawQuery |-> rawQuery],
   Body |-> body]

GET == <<"G", "E", "T">>

POST == <<"P", "O", "S", "T">>

HTTP == <<"h", "t", "t", "p">>

\* The requests given to GetSignedURLFromHTTPRequest: absolute URLs as a
\* client builds them and, with an empty scheme, a request as a server
\* receives it.
SignRequests ==
  { Request(GET, HTTP, <<"/">>, <<>>, NoBody),
    Request(GET, HTTP, <<"/", "f", "o", "o">>, <<"b", "=", "2", "&", "a", "=", "1">>, NoBody),
    Request(POST, HTTP, <<"/">>, <<"a", "=", "1">>, ReaderBody(<<"x">>)),
    Request(GET, HTTP, <<"/">>, <<"e", "x", "p", "i", "r", "e", "s", "=", "1">>, NoBody),
    Request(GET, HTTP, <<"/">>, <<"e", "x", "p", "i", "r", "e", "s", "=", "2">>, NoBody),
    Request(GET, HTTP, <<"/">>, <<"e", "x", "p", "i", "r", "e", "s", "=", "9", "2", "2", "3", "3", "7", "2", "0", "3", "6", "8", "5", "4", "7", "7", "5", "8", "0", "7">>, NoBody),
    Request(GET, HTTP, <<"/">>, <<"s", "i", "g", "n", "a", "t", "u", "r", "e", "=", "x">>, NoBody),
    Request(GET, HTTP, <<"/">>, <<"p", "r", "i", "v", "a", "t", "e", "K", "e", "y", "=", "x">>, NoBody),
    Request(GET, HTTP, <<"/">>, <<"b", "o", "d", "y", "H", "a", "s", "h", "=", "x">>, NoBody),
    Request(GET, HTTP, <<"/">>, <<"s", "i", "g", "n", "=", "x">>, NoBody),
    Request(GET, HTTP, <<"/">>, <<"b", "h", "=", "x", "&", "p", "k", "=", "x">>, NoBody),
    Request(GET, HTTP, <<"/">>, <<"a", "=", "1", "&", "p", "r", "i", "v", "a", "t", "e", "K", "e", "y", "=", "&", "p", "r", "i", "v", "a", "t", "e", "K", "e", "y", "=", "x">>, NoBody),
    Request(GET, HTTP, <<>>, <<"a", "=", "b", "?", "c">>, NoBody),
    Request(GET, <<>>, <<"/">>, <<>>, NoBody),
    Request(GET, HTTP, <<"/">>, <<>>, ErrReaderBody) }

Ctx(method, originalURL, body) ==
  [method |-> method, protocol |-> HTTP, hostname |-> HostH,
   originalURL |-> originalURL, body |-> body]

\* Requests that no signing call stands behind.
PlainRequests ==
  { Ctx(GET, <<"/">>, <<>>),
    Ctx(GET, <<"/", "f", "o", "o">>, <<>>),
    Ctx(GET, <<"/", "?", "s", "i", "g", "n", "a", "t", "u", "r", "e", "=", "w", "r", "o", "n", "g">>, <<>>),
    Ctx(GET, <<"/", "?", "s", "i", "g", "n", "a", "t", "u", "r", "e", "=", "s", "o", "m", "e", "t", "h", "i", "n", "g", "&", "e", "x", "p", "i", "r", "e", "s", "=", "1">>, <<>>),
    Ctx(GET, <<"/", "?", "s", "i", "g", "n", "a", "t", "u", "r", "e", "=", "s", "o", "m", "e", "t", "h", "i", "n", "g", "&", "e", "x", "p", "i", "r", "e", "s", "=", "a", "b", "c">>, <<>>),
    Ctx(GET, <<"/", "?", "e", "x", "p", "i", "r", "e", "s", "=", "a", "b", "c">>, <<>>),
    Ctx(GET, <<"/", "%", "z", "z", "?", "s", "i", "g", "n", "a", "t", "u", "r", "e", "=", "x">>, <<>>),
    Ctx(GET, <<"/", "?", "s", "i", "g", "n", "=", "w", "r", "o", "n", "g", "&", "e", "x", "p", "=", "a", "b", "c">>, <<>>) }

\* The inputs of the direct calls of getHash.
HashInputs == {<<>>, <<"x">>, <<"h", "i">>}

\* The paths and queries of the direct calls of getSignature.
SignatureInputs ==
  { <<>>, <<"/">>, <<"/", "f", "o", "o">>, <<"/", "f", "o", "o", "?", "a", "=", "1">>,
    <<"/", "?", "b", "=", "2", "&", "a", "=", "1">>, <<"/", "?", "a", "=", "b", "?", "c">> }

----------------------------------------------------------------------------
(* A signed URL on its way to the server                                   *)

\* The first index at which sub occurs in s, 0 when it does not.
IndexOfSub(s, sub) ==
  LET at == {i \in 1..(Len(s) - Len(sub) + 1) : SubSeq(s, i, i + Len(sub) - 1) = sub} IN
  IF at = {} THEN 0 ELSE CHOOSE i \in at : \A j \in at : i <= j

\* What a client sends for a URL string: the text after the authority, with
\* "/" for an empty path.
RequestTarget(url) ==
  LET m == IndexOfSub(url, <<":", "/", "/">>)
      after == IF m = 0 THEN url ELSE SubSeq(url, m + 3, Len(url))
      stops == {i \in 1..Len(after) : after[i] \in {"/", "?"}}
      st == IF stops = {} THEN Len(after) + 1 ELSE CHOOSE i \in stops : \A j \in stops : i <= j
      rest == IF m = 0 THEN url ELSE SubSeq(after, st, Len(after))
  IN IF HasPrefix(rest, <<"/">>) THEN rest ELSE <<"/">> \o rest

\* The request that carries the URL of a signing call unmodified: the same
\* method, host and body.
Issued(sg) == Ctx(sg.req.Method, RequestTarget(sg.url), sg.req.Body.data)

\* The parameter the signer appends, as it stands in the URL after others.
SigMarker == <<"&", "s", "i", "g", "n", "a", "t", "u", "r", "e", "=">>

\* Issued, with "?c" put after the value that stands before the signature.
Injected(c) ==
  LET m == IndexOfSub(c.originalURL, SigMarker) IN
  IF m = 0 THEN c
  ELSE [c EXCEPT !.originalURL =
          SubSeq(c.originalURL, 1, m - 1) \o <<"?", "c">> \o SubSeq(c.originalURL, m, Len(c.originalURL))]

FlipChar(ch) == IF ch = "x" THEN "y" ELSE "x"

FlipAt(str, i) == [str EXCEPT ![i] = FlipChar(str[i])]

\* The piece "key=value" of the query that ends right before index m.
PieceBefore(u, m) ==
  LET starts == {i \in 1..(m - 1) : u[i] \in {"&", "?"} /\ \A j \in (i + 1)..(m - 1) : u[j] # "&"}
      st == CHOOSE i \in starts : \A j \in starts : i <= j
  IN IF starts = {} THEN <<>> ELSE SubSeq(u, st + 1, m - 1)

\* The key of the value that stands before the signature in the URL, and
\* whether there is such a value (a non-empty one).
ValueBeforeSig(g, c) ==
  LET m == IndexOfSub(c.originalURL, SigMarker)
      kv == Cut(PieceBefore(c.originalURL, m), "=")
  IN [at |-> m - 1,
      ok |-> m > 0 /\ kv[3] /\ Len(kv[2]) > 0
             /\ DecodeArg(kv[1]) \notin {g.SignatureQueryKey, g.PrivateKeyQueryKey,
                                         g.BodyHashQueryKey}]

Reverse(sq) == [i \in 1..Len(sq) |-> sq[Len(sq) + 1 - i]]

Tampers == {"none", "method", "path", "value", "body", "nobody", "bodyhash", "reorder"}

\* Whether the change can be made to request c.
CanTamper(g, c, kind) ==
  CASE kind = "none" -> TRUE
    [] kind = "method" -> TRUE
    [] kind = "path" -> Len(CtxPath(c)) > 1
    [] kind = "value" -> ValueBeforeSig(g, c).ok
    [] kind = "reorder" -> Len(Split(Cut(c.originalURL, "?")[2], "&")) > 1
    [] OTHER -> Len(c.body) > 0

\* Request c with one thing changed: one character of the method, of the
\* path, of a query value or of the body; the body dropped; the body dropped
\* and its hash given as a query parameter; the query parameters in the
\* opposite order.
Tamper(g, c, kind) ==
  CASE kind = "none" -> c
    [] kind = "method" -> [c EXCEPT !.method = FlipAt(c.method, Len(c.method))]
    [] kind = "path" -> [c EXCEPT !.originalURL = FlipAt(c.originalURL, Len(CtxPath(c)))]
    [] kind = "value" -> [c EXCEPT !.originalURL = FlipAt(c.originalURL, ValueBeforeSig(g, c).at)]
    [] kind = "body" -> [c EXCEPT !.body = FlipAt(c.body, Len(c.body))]
    [] kind = "nobody" -> [c EXCEPT !.body = <<>>]
    [] kind = "bodyhash" ->
         LET parts == Cut(c.originalURL, "?") IN
         [c EXCEPT !.body = <<>>,
                   !.originalURL = parts[1] \o <<"?">> \o g.BodyHashQueryKey \o <<"=">>
                                     \o getHash(g, c.body) \o <<"&">> \o parts[2]]
    [] kind = "reorder" ->
         LET parts == Cut(c.originalURL, "?") IN
         [c EXCEPT !.originalURL =
            parts[1] \o <<"?">> \o Join(Reverse(Split(parts[2], "&")), <<"&">>)]

----------------------------------------------------------------------------
(* The state machine                                                       *)

NoCtx == Ctx(<<>>, <<>>, <<>>)

NoRequest == Request(<<>>, <<>>, <<>>, <<>>, NoBody)

\* resp: the last request a handler served.  h is the handler (its index in
\* handlers), base the request before the change named by tamper, baseOk
\* whether validateRequest accepted base at that moment, secret the number of
\* calls of the secret function the handler made.
NoResp ==
  [h |-> 0, from |-> "none", base |-> NoCtx, tamper |-> "none", ctx |-> NoCtx,
   baseOk |-> FALSE, bypassed |-> FALSE, downstream |-> FALSE, status |-> 0,
   err |-> NoError, secret |-> 0]

\* again: a second call of GetSignedURLFromHTTPRequest on the request object
\* of the last call; r is the request as that second call left it.
NoAgain == [called |-> FALSE, r |-> NoRequest, url |-> <<>>, err |-> NoError]

\* again after a second call that returned out.
Again(out) == [called |-> TRUE, r |-> out.r, url |-> out.url, err |-> out.err]

\* signed: the last call of GetSignedURLFromHTTPRequest.  req is the request
\* as given, r the request as the call left it, g the configuration then.
NoSigned ==
  [called |-> FALSE, req |-> NoRequest, r |-> NoRequest, url |-> <<>>, err |-> NoError,
   g |-> ZeroConfig, again |-> NoAgain]

\* signed after a call on request r under configuration g that returned out.
Signed(r, g, out) ==
  [called |-> TRUE, req |-> r, r |-> out.r, url |-> out.url, err |-> out.err, g |-> g,
   again |-> NoAgain]

\* probe: the last direct call of getHash, on input in, or of getSignature,
\* on the path and query in with method GET, base URL http://h.io and no
\* body.
NoProbe == [fn |-> "none", in |-> <<>>, out |-> <<>>]

Init ==
  /\ cfg = ZeroConfig
  /\ handlers = <<>>
  /\ now = [sec |-> 1, nsec |-> 0]
  /\ resp = NoResp
  /\ signed = NoSigned
  /\ probe = NoProbe

\* New(config...): sets the package variable and returns a handler.  The
\* handler holds no configuration of its own; handlers records the arguments
\* each was created with.
New(config) ==
  /\ Len(handlers) < MaxHandlers
  /\ resp = NoResp /\ probe = NoProbe /\ ~signed.called
  /\ cfg' = configDefault(config)
  /\ handlers' = Append(handlers, config)
  /\ UNCHANGED <<now, resp, signed, probe>>

\* The half seconds between the start of the clock and t.
Elapsed(t) == 2 * (t.sec - 1) + (IF t.nsec = 0 THEN 0 ELSE 1)

\* Time passes: half a second at a time.
Tick ==
  /\ Elapsed(now) < MaxTicks
  /\ resp = NoResp /\ probe = NoProbe
  /\ now' = IF now.nsec = 0 THEN [now EXCEPT !.nsec = HalfSecond]
            ELSE [sec |-> now.sec + 1, nsec |-> 0]
  /\ UNCHANGED <<cfg, handlers, resp, signed, probe>>

\* A call of GetSignedURLFromHTTPRequest in an application with one handler,
\* where cfg is the configuration of that handler.  What further calls of New
\* do to cfg is observed with the requests of HandlePlain.
Sign(r) ==
  /\ Len(handlers) = 1
  /\ resp = NoResp /\ probe = NoProbe /\ ~signed.called
  /\ signed' = Signed(r, cfg, GetSignedURLFromHTTPRequest(cfg, r))
  /\ UNCHANGED <<cfg, handlers, now, resp, probe>>

\* A second call of GetSignedURLFromHTTPRequest with the same *http.Request:
\* it reads what the first call left in the request.
SignAgain ==
  /\ signed.called /\ ~signed.again.called
  /\ resp = NoResp /\ probe = NoProbe
  /\ signed' = [signed EXCEPT !.again = Again(GetSignedURLFromHTTPRequest(cfg, signed.r))]
  /\ UNCHANGED <<cfg, handlers, now, resp, probe>>

\* resp after handler h served request c, which returned out.
Served(h, from, base, kind, c, baseOk, out) ==
  [h |-> h, from |-> from, base |-> base, tamper |-> kind, ctx |-> c, baseOk |-> baseOk,
   bypassed |-> out.bypassed, downstream |-> out.downstream, status |-> out.status,
   err |-> out.err, secret |-> out.secret]

ServeCtx(h, from, base, kind, c) ==
  Served(h, from, base, kind, c, validateRequest(cfg, now, base).ok, handler(cfg, now, c))

Serve(h, from, base, kind) == ServeCtx(h, from, base, kind, Tamper(cfg, base, kind))

ServeFrom(h, from, base, kind) ==
  /\ CanTamper(cfg, base, kind)
  /\ resp' = Serve(h, from, base, kind)

\* Handler h serves a request derived from the last signed URL: the URL as
\* issued or with "?c" injected, then possibly changed once more.  The URL is
\* sent before the request object is given to the signer a second time.
HandleSigned(h, from, kind) ==
  /\ h \in 1..Len(handlers)
  /\ resp = NoResp /\ probe = NoProbe
  /\ signed.called /\ signed.err = NoError /\ ~signed.again.called
  /\ from = "injected" =>
       kind \in {"none", "value", "reorder"} /\ Injected(Issued(signed)) # Issued(signed)
  /\ ServeFrom(h, from, IF from = "issued" THEN Issued(signed) ELSE Injected(Issued(signed)), kind)
  /\ UNCHANGED <<cfg, handlers, now, signed, probe>>

\* Handler h serves a request that no signing call stands behind.
HandlePlain(h, c) ==
  /\ h \in 1..Len(handlers)
  /\ resp = NoResp /\ probe = NoProbe /\ ~signed.called
  /\ resp' = Serve(h, "plain", c, "none")
  /\ UNCHANGED <<cfg, handlers, now, signed, probe>>

\* A direct call of getHash.
Hash(s) ==
  /\ resp = NoResp /\ probe = NoProbe /\ ~signed.called
  /\ probe' = [fn |-> "getHash", in |-> s, out |-> getHash(cfg, s)]
  /\ UNCHANGED <<cfg, handlers, now, resp, signed>>

\* A direct call of getSignature, once New has set the secret function.
Signature(u) ==
  /\ Len(handlers) > 0
  /\ resp = NoResp /\ probe = NoProbe /\ ~signed.called
  /\ probe' = [fn |-> "getSignature", in |-> u,
               out |-> getSignature(cfg, GET, HTTP \o <<":", "/", "/">> \o HostH, u, <<>>).sig]
  /\ UNCHANGED <<cfg, handlers, now, resp, signed>>

\* The response has been sent, or the result of a call has been read.
Return ==
  /\ resp # NoResp \/ probe # NoProbe
  /\ resp' = NoResp
  /\ probe' = NoProbe
  /\ UNCHANGED <<cfg, handlers, now, signed>>

\* The signed URL is not used any more.
Discard ==
  /\ signed.called /\ resp = NoResp
  /\ signed' = NoSigned
  /\ UNCHANGED <<cfg, handlers, now, resp, probe>>

Next ==
  \/ \E config \in ConfigInputs : New(config)
  \/ Tick
  \/ \E r \in SignRequests : Sign(r)
  \/ SignAgain
  \/ \E h \in 1..MaxHandlers, from \in {"issued", "injected"}, kind \in Tampers :
       HandleSigned(h, from, kind)
  \/ \E h \in 1..MaxHandlers, c \in PlainRequests : HandlePlain(h, c)
  \/ \E s \in HashInputs : Hash(s)
  \/ \E u \in SignatureInputs : Signature(u)
  \/ Return
  \/ Discard

Spec == Init /\ [][Next]_vars

----------------------------------------------------------------------------
(* What the claims read from a state                                       *)

\* The signature getSignature computes for request c under cfg.
Recomputed(c) == getSignature(cfg, c.method, CtxBaseURL(c), c.originalURL, c.body).sig

\* Whether second e of the Unix clock lies before time t.
IsPast(e, t) ==
  \/ SignedLess(e, Int64(FALSE, NatToMag(t.sec)))
  \/ e = Int64(FALSE, NatToMag(t.sec)) /\ t.nsec > 0

\* Request c has no expires value, or an integer one that is not past.
NotYetPast(c) ==
  \/ CtxQuery(c, cfg.ExpiresQueryKey) = <<>>
  \/ /\ ParseInt(CtxQuery(c, cfg.ExpiresQueryKey)).ok
     /\ ~IsPast(ParseInt(CtxQuery(c, cfg.ExpiresQueryKey)).val, now)

\* A handler has verified the request of resp (it did not bypass it).
Verified == resp.h > 0 /\ ~resp.bypassed

\* The request of resp was refused.
Refused == resp.status = StatusForbidden /\ ~resp.downstream

----------------------------------------------------------------------------
(* C1 .. C4: what a signature covers                                       *)

\* C1: the URL that GetSignedURLFromHTTPRequest returns without an error
\* carries a signature under the configured signature key, and sent
\* unmodified (same method, host and body, same configuration, expires not
\* past) validateRequest accepts it.
C1_RoundTrip ==
  (resp.from = "issued" /\ resp.tamper = "none" /\ NotYetPast(resp.ctx)) =>
    /\ CtxQuery(resp.ctx, cfg.SignatureQueryKey) # <<>>
    /\ resp.baseOk

\* C2: when validateRequest accepts a request that carries a signature, the
\* same request with one character of the method, of the path or of a
\* query value other than the reserved ones changed is refused.
C2_TamperSensitive ==
  (Verified /\ resp.baseOk /\ resp.tamper \in {"method", "path", "value"}) => Refused

\* C3: getSignature returns the same signature for two URLs whose query
\* strings are permutations of one another.
C3_OrderIndependent ==
  (resp.h > 0 /\ resp.tamper = "reorder") => Recomputed(resp.ctx) = Recomputed(resp.base)

\* C4: a signature issued for a request with a non-empty body is accepted
\* for no request with another body or with none, whatever parameters the
\* client adds to the URL.
C4_BodyBound ==
  (Verified /\ resp.baseOk /\ resp.tamper \in {"body", "nobody", "bodyhash"}) => Refused

----------------------------------------------------------------------------
(* C5, C6: the gate and the expiry                                         *)

\* The checks of validateRequest that request c fails, by their errors.
FailedChecks(c) ==
  {e \in {ErrRequired(cfg.SignatureQueryKey), ErrNotInteger(cfg.ExpiresQueryKey), ErrExpired,
          ErrInvalidSignature} :
     \/ e = ErrRequired(cfg.SignatureQueryKey) /\ CtxQuery(c, cfg.SignatureQueryKey) = <<>>
     \/ /\ e = ErrNotInteger(cfg.ExpiresQueryKey)
        /\ CtxQuery(c, cfg.ExpiresQueryKey) # <<>>
        /\ ~ParseInt(CtxQuery(c, cfg.ExpiresQueryKey)).ok
     \/ /\ e = ErrExpired
        /\ CtxQuery(c, cfg.ExpiresQueryKey) # <<>>
        /\ ParseInt(CtxQuery(c, cfg.ExpiresQueryKey)).ok
        /\ IsPast(ParseInt(CtxQuery(c, cfg.ExpiresQueryKey)).val, now)
     \/ e = ErrInvalidSignature /\ CtxQuery(c, cfg.SignatureQueryKey) # Recomputed(c)}

\* C5: a request that is not bypassed reaches the downstream handler only
\* with a non-empty signature, an expires value that is absent or an integer
\* not past, and a signature equal to the recomputed one; a request that
\* fails one of these checks gets 403 with the message of a check it fails,
\* and the downstream handler is not invoked.
C5_Gate ==
  Verified =>
    /\ resp.downstream => FailedChecks(resp.ctx) = {}
    /\ FailedChecks(resp.ctx) # {} => Refused /\ resp.err \in FailedChecks(resp.ctx)

\* Request c carries the signature that getSignature computes for it.
RightlySigned(c) ==
  /\ CtxQuery(c, cfg.SignatureQueryKey) # <<>>
  /\ CtxQuery(c, cfg.SignatureQueryKey) = Recomputed(c)

\* C6: a rightly signed request with an integer expires value is accepted
\* when that second is the current time or later and refused as expired when
\* it is earlier; without an expires value it is not refused as expired.
C6_ExpiryBoundary ==
  (Verified /\ RightlySigned(resp.ctx)) =>
    IF CtxQuery(resp.ctx, cfg.ExpiresQueryKey) = <<>> THEN resp.downstream
    ELSE ParseInt(CtxQuery(resp.ctx, cfg.ExpiresQueryKey)).ok =>
           IF IsPast(ParseInt(CtxQuery(resp.ctx, cfg.ExpiresQueryKey)).val, now)
           THEN Refused /\ resp.err = ErrExpired
           ELSE resp.downstream

----------------------------------------------------------------------------
(* C7, C8: the errors of the signer                                        *)

\* The reserved keys for which the query of request r holds a non-empty
\* value, under configuration g.
ReservedKeys(g, r) ==
  {k \in {g.SignatureQueryKey, g.PrivateKeyQueryKey, g.BodyHashQueryKey} :
     /\ k \in DOMAIN ParseQuery(r.URL.RawQuery)
     /\ \E n \in 1..Len(ParseQuery(r.URL.RawQuery)[k]) : ParseQuery(r.URL.RawQuery)[k][n] # <<>>}

\* GetSignedURLFromHTTPRequest was called on a request whose body it could
\* read.
SignerRead == signed.called /\ signed.req.Body.kind # "errReader"

\* C7: when the query of the request holds a non-empty value for a reserved
\* key, as any of the values of that key, the call returns the
\* reserved-parameter error naming such a key and no URL.
C7_Reserved ==
  (SignerRead /\ ReservedKeys(signed.g, signed.req) # {}) =>
    /\ signed.url = <<>>
    /\ signed.err \in {ErrReserved(k) : k \in ReservedKeys(signed.g, signed.req)}

\* The URL that getSignature parses for request r of the signer.
SignerURL(r) ==
  r.URL.Scheme \o <<":", "/", "/">> \o r.Host \o r.URL.Path \o <<"?">> \o r.URL.RawQuery

\* C8: when base URL + path and query does not parse, getSignature returns
\* the error "cannot parse provided URL" and no signature, the signer returns
\* that error and no URL, and the verifier refuses the request.
C8_Malformed ==
  /\ (SignerRead /\ ReservedKeys(signed.g, signed.req) = {}
        /\ ~ParseRequestURI(SignerURL(signed.req)).ok) =>
       /\ getSignature(signed.g, signed.req.Method,
                       signed.req.URL.Scheme \o <<":", "/", "/">> \o signed.req.Host,
                       signed.req.URL.Path \o <<"?">> \o signed.req.URL.RawQuery,
                       signed.req.Body.data) = [sig |-> <<>>, err |-> ErrCannotParse]
       /\ signed.err = ErrCannotParse
       /\ signed.url = <<>>
  /\ (Verified /\ ~ParseRequestURI(CtxBaseURL(resp.ctx) \o resp.ctx.originalURL).ok) => Refused

----------------------------------------------------------------------------
(* C9, C10: the configuration                                              *)

\* C9: the handler that New(config) returned bypasses a request exactly when
\* the Next of that config returns true for it, and otherwise verifies it
\* with the keys, algorithm and secret function of that config.
C9_PerHandler ==
  resp.h > 0 =>
    /\ resp.bypassed = handler(configDefault(handlers[resp.h]), now, resp.ctx).bypassed
    /\ resp.downstream = handler(configDefault(handlers[resp.h]), now, resp.ctx).downstream
    /\ resp.status = handler(configDefault(handlers[resp.h]), now, resp.ctx).status
    /\ resp.err = handler(configDefault(handlers[resp.h]), now, resp.ctx).err

\* The digest that the algorithm named alg gives for s.
Digest(alg, s) ==
  CASE alg \in {AlgorithmSHA1, ""} -> Sha1Hex(s)
    [] alg = AlgorithmSHA256 -> Sha256Hex(s)
    [] alg = AlgorithmMD5 -> Md5Hex(s)
    [] OTHER -> getHash(ConfigDefault, s)

\* The value under "signature" in the URL the signer returned.
IssuedSignature == ValuesGet(ParseQuery(signed.r.URL.RawQuery), <<"s", "i", "g", "n", "a", "t", "u", "r", "e">>)

\* The message getSignature hashes for the request given to the signer.
IssuedMessage ==
  hashString(signed.g, signed.req.Method, ParseRequestURI(SignerURL(signed.req)),
             signed.req.URL.Path \o <<"?">> \o signed.req.URL.RawQuery, signed.req.Body.data)

\* C10: getHash gives SHA-1 for "SHA-1" and for the empty algorithm, SHA-256
\* for "SHA-256", MD5 for "MD-5" and, for any other value, what the default
\* configuration gives; the signature is the digest, by the configured
\* algorithm, of a message that holds the digest of the body by the same
\* algorithm.
C10_Algorithm ==
  /\ probe.fn = "getHash" => probe.out = Digest(cfg.Algorithm, probe.in)
  /\ (signed.called /\ signed.err = NoError /\ Len(signed.req.Body.data) > 0
        /\ ParseRequestURI(SignerURL(signed.req)).ok) =>
       /\ IssuedSignature = Digest(signed.g.Algorithm, IssuedMessage)
       /\ IndexOfSub(IssuedMessage,
                     signed.g.BodyHashQueryKey \o <<"=">>
                       \o Digest(signed.g.Algorithm, signed.req.Body.data)) > 0

\* getHash was called under an algorithm that is none of the three.
C10_Witness ==
  /\ probe.fn = "getHash" /\ Len(probe.in) > 0
  /\ cfg.Algorithm \notin {AlgorithmSHA1, AlgorithmSHA256, AlgorithmMD5, ""}

----------------------------------------------------------------------------
(* C11: the order of the checks                                            *)

\* C11: validateRequest applies its checks in the order presence of the
\* signature, expiry, comparison, and reports the first that fails: without
\* a signature the missing-signature error whatever the expires value; with
\* a signature and an expires value that is no integer or is past, the error
\* of the expiry whether or not the signature is right, and the secret
\* function is not called; the invalid-signature error only for requests
\* that pass the first two checks.
C11_CheckOrder ==
  Verified =>
    /\ CtxQuery(resp.ctx, cfg.SignatureQueryKey) = <<>> =>
         resp.err = ErrRequired(cfg.SignatureQueryKey)
    /\ (CtxQuery(resp.ctx, cfg.SignatureQueryKey) # <<>>
          /\ ErrNotInteger(cfg.ExpiresQueryKey) \in FailedChecks(resp.ctx)) =>
         resp.err = ErrNotInteger(cfg.ExpiresQueryKey) /\ resp.secret = 0
    /\ (CtxQuery(resp.ctx, cfg.SignatureQueryKey) # <<>> /\ ErrExpired \in FailedChecks(resp.ctx)) =>
         resp.err = ErrExpired /\ resp.secret = 0
    /\ resp.err = ErrInvalidSignature =>
         CtxQuery(resp.ctx, cfg.SignatureQueryKey) # <<>> /\ NotYetPast(resp.ctx)

\* A rightly signed request whose expires value is past was refused as
\* expired, the secret function not called.
C11_Witness ==
  /\ Verified /\ RightlySigned(resp.ctx)
  /\ ErrExpired \in FailedChecks(resp.ctx)
  /\ resp.err = ErrExpired /\ resp.secret = 0

----------------------------------------------------------------------------
(* C12: the query that is signed                                           *)

\* The query parameters of path and query u: everything after its first "?",
\* none when there is no "?".
QueryOf(u) == IF Contains(u, "?") THEN ParseQuery(Cut(u, "?")[2]) ELSE EmptyValues

\* The path of path and query u, "/" when it is empty.
PathOf(u) == IF Cut(u, "?")[1] = <<>> THEN <<"/">> ELSE Cut(u, "?")[1]

\* The message for a GET of path and query u at http://h.io without a body:
\* the parameters of u and the private key.
MessageOf(u) ==
  GET \o <<"&">> \o HTTP \o <<":", "/", "/">> \o HostH \o PathOf(u) \o <<"?">>
    \o orderQueryParams(cfg, ValuesSet(QueryOf(u), cfg.PrivateKeyQueryKey,
                                       CallGetPrivateKeyFunc(cfg.GetPrivateKeyFunc)))

\* C12: getSignature signs METHOD&scheme://host path ? and, besides the
\* private key (and the body hash), exactly the query parameters of the path
\* and query, taken as everything after its first "?"; without a "?" there
\* are none; an empty path becomes "/", any other path is left as it is.
C12_QueryExtraction ==
  probe.fn = "getSignature" => probe.out = Digest(cfg.Algorithm, MessageOf(probe.in))

----------------------------------------------------------------------------
(* C13: the signer called twice on one request                             *)

SignatureKey == <<"s", "i", "g", "n", "a", "t", "u", "r", "e">>

\* The values under key k in the query string of request r.
QueryValues(r, k) ==
  IF k \in DOMAIN ParseQuery(r.URL.RawQuery)
  THEN {ParseQuery(r.URL.RawQuery)[k][n] : n \in DOMAIN ParseQuery(r.URL.RawQuery)[k]}
  ELSE {}

\* What getSignature returns for the request given to the signer.
SignerSignature ==
  getSignature(signed.g, signed.req.Method,
               signed.req.URL.Scheme \o <<":", "/", "/">> \o signed.req.Host,
               signed.req.URL.Path \o <<"?">> \o signed.req.URL.RawQuery,
               signed.req.Body.data).sig

\* A call that returned no error wrote the signature into the query string of
\* its request and consumed the body.
C13_SuccessWrites ==
  (signed.called /\ signed.err = NoError) =>
    /\ SignerSignature \in QueryValues(signed.r, SignatureKey)
    /\ signed.r.URL.RawQuery # signed.req.URL.RawQuery
    /\ signed.r.Body.data = <<>>
    /\ signed.url = URLString(signed.r.URL)

\* A call that returned an error left the URL of its request as it was.
C13_FailureKeeps ==
  /\ (signed.called /\ signed.err # NoError) => signed.r.URL = signed.req.URL
  /\ (signed.again.called /\ signed.again.err # NoError) => signed.again.r.URL = signed.r.URL

\* Under the default configuration the second call on the request of a call
\* that returned a signed URL returns no URL but the reserved-parameter error.
C13_SecondRefused ==
  (signed.again.called /\ signed.err = NoError /\ signed.g = ConfigDefault) =>
    /\ signed.again.url = <<>>
    /\ signed.again.err = ErrReserved(SignatureKey)

\* C13: a call of GetSignedURLFromHTTPRequest that succeeds writes the
\* signature into the query string of its request and consumes the body, a
\* call that fails leaves the URL of the request unchanged, and so, under the
\* default configuration, a second call on the same request never returns a
\* signed URL again but fails with the reserved-parameter error for the
\* signature key.
C13_NotIdempotent == C13_SuccessWrites /\ C13_FailureKeeps /\ C13_SecondRefused

====
